---------------------------- MODULE Spec2Model ----------------------------
(***************************************************************************)
(* The GitHub repo puller: the zustand store usePullStore                  *)
(* (ui/src/utils/Pull_util.ts), the page that drives it                    *)
(* (ui/src/pages/Pull_page.tsx) and the RepoCard component with its        *)
(* selection state (ui/src/components/Pull_comp.tsx).                      *)
(*                                                                         *)
(* A nullable value is a sequence of length 0 (null) or 1.  A path is the  *)
(* sequence of its segments ("src/a.ts" is <<"src", "a.ts">>); the empty   *)
(* sequence is the empty string, falsy like null.                          *)
(***************************************************************************)
EXTENDS Integers, Sequences, FiniteSets

VARIABLES
    store,          \* the zustand state: branches, selectedBranch, isLoading,
                    \* isPulling, error, repoData
    url,            \* Pull_page's useState url
    selectedFiles,  \* RepoCard's useState Set of paths (card mounted iff repoData)
    sortConfig,     \* RepoCard's useState sortConfig: column and direction
    rows,           \* the files RepoCard lists, in the order it lists them
    inflight,       \* the requests awaiting their answer, in issue order:
                    \* each the operation and the caller that resumes
    microtasks,     \* the continuations that run before the next event:
                    \* handleSubmit resuming after its await fetchBranches
    event,          \* the handler that ran in the last step: its name, the
                    \* response it was given (resp, and pos, the place of
                    \* its request in inflight), the request it sent (sent)
                    \* and the toast it emitted
    input,          \* the argument a function of Pull_comp is applied to, in
                    \* the specifications that follow one function alone
    output          \* and the values it returned, in the order of the calls

vars == <<store, url, selectedFiles, sortConfig, rows, inflight, microtasks,
          event, input, output>>

\* At most this many requests are in flight at once.
MaxInFlight == 2

----------------------------------------------------------------------------
\* Nullable values.
Null == <<>>

Some(x) == <<x>>

\* JavaScript truthiness of a nullable string.
Truthy(s) == s # Null /\ s[1] # ""

\* a || b on nullable strings.
OrElse(s, fallback) == IF Truthy(s) THEN s[1] ELSE fallback

----------------------------------------------------------------------------
\* File trees.
File(name, path, parent) ==
    [name |-> name, path |-> path, type |-> "file",
     parent_path |-> parent, children |-> <<>>]

Dir(name, path, parent, kids) ==
    [name |-> name, path |-> path, type |-> "dir",
     parent_path |-> parent, children |-> kids]

\* getAllFiles, and contents.flatMap(getAllFiles) over a sequence of entries.
RECURSIVE getAllFiles(_), FlatMapAllFiles(_)
\* getAllFiles taking the children as they are, without descending.
getAllFiles_ChildrenAsIs(file) ==
    LET files == IF file.type = "file" THEN <<file>> ELSE <<>>
    IN  files \o file.children

getAllFiles(file) ==
    LET files == IF file.type = "file" THEN <<file>> ELSE <<>>
    IN  files \o FlatMapAllFiles(file.children)

FlatMapAllFiles(entries) ==
    IF entries = <<>> THEN <<>>
    ELSE getAllFiles(Head(entries)) \o FlatMapAllFiles(Tail(entries))

\* file => !file.parent_path
IsRoot(file) == file.parent_path = <<>>

Range(s) == {s[i] : i \in DOMAIN s}

Paths(files) == {files[i].path : i \in DOMAIN files}

\* The rows RepoCard lists: contents.flatMap(getAllFiles).
DisplayedFiles(contents) == FlatMapAllFiles(contents)

\* contents.filter(file => !file.parent_path).flatMap(getAllFiles)
RootFiles(contents) == FlatMapAllFiles(SelectSeq(contents, IsRoot))

----------------------------------------------------------------------------
\* The columns of the list and their order.

\* path.includes('/dir/'): a slash on both sides, so dir is a segment of the
\* path that is neither its first nor its last.
Includes(path, dir) == \E i \in 2..(Len(path) - 1) : path[i] = dir

getFileCategory(path) ==
    IF Includes(path, "apis") THEN "backend"
    ELSE IF Includes(path, "components") THEN "component"
    ELSE IF Includes(path, "utils") THEN "util"
    ELSE IF Includes(path, "pages") THEN "page"
    ELSE "other"

\* The strings the model sorts, in the order localeCompare puts them: by
\* letter first, whatever the case, a full stop before every letter.
Collation ==
    << "a.ts", "apis", "b.ts", "backend", "c.ts", "component", "components",
       "other", "page", "pages", "README.md", "src", "util", "utils" >>

Rank(s) == CHOOSE i \in DOMAIN Collation : Collation[i] = s

\* a.localeCompare(b) on two of these strings.
localeCompare(a, b) ==
    IF Rank(a) < Rank(b) THEN -1 ELSE IF Rank(a) > Rank(b) THEN 1 ELSE 0

\* a.path.localeCompare(b.path): segment by segment, the slash sorting
\* before every letter.
RECURSIVE comparePaths(_, _)
comparePaths(p, q) ==
    IF p = <<>> THEN (IF q = <<>> THEN 0 ELSE -1)
    ELSE IF q = <<>> THEN 1
    ELSE LET c == localeCompare(Head(p), Head(q))
         IN  IF c # 0 THEN c ELSE comparePaths(Tail(p), Tail(q))

Columns == {"name", "path", "category"}

Directions == {"asc", "desc"}

InitialSortConfig == [column |-> "name", direction |-> "asc"]

\* sortFiles' comparator.
compareFiles(a, b, cfg) ==
    LET compareResult ==
          CASE cfg.column = "name" -> localeCompare(a.name, b.name)
            [] cfg.column = "path" -> comparePaths(a.path, b.path)
            [] cfg.column = "category" ->
                 localeCompare(getFileCategory(a.path), getFileCategory(b.path))
    IN  IF cfg.direction = "asc" THEN compareResult ELSE 0 - compareResult

\* A sort that puts an element before the elements it compares equal to.
RECURSIVE sortFiles_Unstable(_, _)
sortFiles_Unstable(files, cfg) ==
    IF files = <<>> THEN <<>>
    ELSE LET n      == Len(files)
             sorted == sortFiles_Unstable(SubSeq(files, 1, n - 1), cfg)
             k      == Cardinality({ i \in DOMAIN sorted :
                                       compareFiles(sorted[i], files[n], cfg) < 0 })
         IN  SubSeq(sorted, 1, k) \o << files[n] >>
               \o SubSeq(sorted, k + 1, Len(sorted))

\* sortFiles: [...files].sort(comparator).  The comparator is consistent, and
\* Array.prototype.sort is stable: each element goes behind the elements
\* before it that do not compare greater.
RECURSIVE sortFiles(_, _)
sortFiles(files, cfg) ==
    IF files = <<>> THEN <<>>
    ELSE LET n      == Len(files)
             sorted == sortFiles(SubSeq(files, 1, n - 1), cfg)
             k      == Cardinality({ i \in DOMAIN sorted :
                                       compareFiles(sorted[i], files[n], cfg) <= 0 })
         IN  SubSeq(sorted, 1, k) \o << files[n] >>
               \o SubSeq(sorted, k + 1, Len(sorted))

\* The list's comparator: (a, b) => sortFiles([a, b], sortConfig)[0] === a
\* ? -1 : 1.  It never answers 0, and answers -1 both ways round for two
\* files with equal keys.
displayCompare(a, b, cfg) == IF sortFiles(<<a, b>>, cfg)[1] = a THEN -1 ELSE 1

\* With a comparator that is not consistent the order sort leaves is up to
\* the engine.  Engines differ in the argument they hand over first when
\* they place an element among those before it: the element being placed
\* (V8's binary insertion) or the one already placed (a merge of runs).
Engines == {"later-first", "earlier-first"}

\* files.sort(displayCompare) as each engine runs it.
RECURSIVE sortRows(_, _, _)
sortRows(files, cfg, engine) ==
    IF files = <<>> THEN <<>>
    ELSE LET n      == Len(files)
             x      == files[n]
             sorted == sortRows(SubSeq(files, 1, n - 1), cfg, engine)
             k      == IF engine = "later-first"
                       THEN Cardinality({ i \in DOMAIN sorted :
                                            displayCompare(x, sorted[i], cfg) >= 0 })
                       ELSE Cardinality({ i \in DOMAIN sorted :
                                            displayCompare(sorted[i], x, cfg) <= 0 })
         IN  SubSeq(sorted, 1, k) \o << x >> \o SubSeq(sorted, k + 1, Len(sorted))

\* handleSort flipping the direction whatever the column.
handleSort_AlwaysFlips(prev, column) ==
    [column |-> column,
     direction |-> IF prev.direction = "asc" THEN "desc" ELSE "asc"]

\* handleSort's updater.
handleSort(prev, column) ==
    [column |-> column,
     direction |-> IF prev.column = column /\ prev.direction = "asc"
                   THEN "desc" ELSE "asc"]

----------------------------------------------------------------------------
\* What the transport may answer.

\* A repository with a directory, and one whose listing is flat: an entry
\* that names a parent sits at the top level.
RepoA ==
    [name |-> "a",
     contents |-> << Dir("src", <<"src">>, <<>>,
                         << File("a.ts", <<"src", "a.ts">>, <<"src">>) >>),
                     File("README.md", <<"README.md">>, <<>>) >>]

RepoB ==
    [name |-> "b",
     contents |-> << File("a.ts", <<"src", "a.ts">>, <<"src">>) >>]

Snapshots == {RepoA, RepoB}

\* A repository with two files of one name, in two directories.
RepoC ==
    [name |-> "c",
     contents |-> << Dir("src", <<"src">>, <<>>,
                         << Dir("utils", <<"src", "utils">>, <<"src">>,
                                << File("a.ts", <<"src", "utils", "a.ts">>,
                                        <<"src", "utils">>) >>),
                            Dir("pages", <<"src", "pages">>, <<"src">>,
                                << File("a.ts", <<"src", "pages", "a.ts">>,
                                        <<"src", "pages">>) >>),
                            Dir("apis", <<"src", "apis">>, <<"src">>,
                                << File("b.ts", <<"src", "apis", "b.ts">>,
                                        <<"src", "apis">>) >>) >>) >>]

\* The snapshots a card is followed with on its own.
CardSnapshots == Snapshots \cup {RepoC}

CardPaths == UNION { Paths(DisplayedFiles(s.contents)) : s \in CardSnapshots }

SortConfigs == [column : Columns, direction : Directions]

\* contents.flatMap(getAllFiles).sort(displayCompare) for each snapshot and
\* each sortConfig: the orders the engines may leave.
RenderedRows ==
    { [snapshot |-> s, sortConfig |-> cfg,
       rows |-> sortRows(FlatMapAllFiles(s.contents), cfg, engine)] :
        s \in CardSnapshots, cfg \in SortConfigs, engine \in Engines }

\* What RepoCard may list for a state of the store: nothing without a
\* snapshot, else the rows of its snapshot under sortConfig.
Renders(state, cfg) ==
    IF state.repoData = Null THEN { <<>> }
    ELSE { r.rows : r \in { q \in RenderedRows :
                                /\ q.snapshot = state.repoData[1]
                                /\ q.sortConfig = cfg } }

AllPaths == UNION { Paths(DisplayedFiles(s.contents)) : s \in Snapshots }

BranchLists ==
    { <<>>, <<"dev", "feature-x">>, <<"main", "dev">>, <<"master">> }

BranchNames == {"main"} \cup UNION { Range(b) : b \in BranchLists }

\* A rejected fetch or a body that is not JSON: an error whose message is
\* absent, empty or a text.
Failures == { [ok |-> FALSE, message |-> m] :
                m \in {Null, Some(""), Some("Network Error")} }

\* get-branches: a body with branches, a body without (an error body), or a
\* failure.
BranchResponses ==
    { [ok |-> TRUE, branches |-> Some(b)] : b \in BranchLists }
      \cup { [ok |-> TRUE, branches |-> Null] } \cup Failures

RepoResponses == { [ok |-> TRUE, data |-> s] : s \in Snapshots } \cup Failures

\* pull-files answered to the store: created_files absent or a list.
PullResponses ==
    { [ok |-> TRUE, created_files |-> c] : c \in {Null, Some(<<>>), Some(<<"f">>)} }
      \cup Failures

----------------------------------------------------------------------------
\* sonner's toast: none, or one notification.
NoToast == <<>>

Toast(level, text) == << [level |-> level, text |-> text] >>

\* A toast whose text carries a count.
CountToast(level, text, count) ==
    << [level |-> level, text |-> text, count |-> count] >>

\* A request as the transport sees it: the endpoint and the JSON body.
FetchBranchesRequest == [op |-> "get-branches"]

\* fetch-repo always asking for the default branch.
FetchRepoRequest_Default(branch) == [op |-> "fetch-repo", branch |-> "main"]

FetchRepoRequest(branch) == [op |-> "fetch-repo", branch |-> branch]

PullFilesRequest(files) == [op |-> "pull-files", files |-> files]

\* The await a request leaves behind.
Pending(op, from) == [op |-> op, from |-> from]

\* fetchRepo's await, with (history, read by no handler) the snapshot the
\* store held when the request was issued.
PendingFetchRepo(state) ==
    [op |-> "fetch-repo", from |-> "handleSubmit", issuedWith |-> state.repoData]

\* No continuation is waiting: the next event (a click, a keystroke, a
\* response) may be handled.
Idle == microtasks = <<>>

RemoveAt(s, i) == SubSeq(s, 1, i - 1) \o SubSeq(s, i + 1, Len(s))

InitialStore ==
    [branches |-> <<>>, selectedBranch |-> "main", isLoading |-> FALSE,
     isPulling |-> FALSE, error |-> Null, repoData |-> Null]

\* The page as first rendered: no snapshot, so no card and no rows.
FirstRender ==
    /\ store = InitialStore
    /\ url = <<>>
    /\ selectedFiles = {}
    /\ sortConfig = InitialSortConfig
    /\ rows = <<>>
    /\ inflight = <<>>
    /\ microtasks = <<>>
    /\ event = [op |-> "init", toast |-> NoToast]

Init ==
    /\ FirstRender
    /\ input = <<>>
    /\ output = <<>>

----------------------------------------------------------------------------
\* The store's handlers, as functions of the state (get()) to the state
\* after their set() calls.

HasMainOrMaster(list) == "main" \in Range(list) \/ "master" \in Range(list)

\* fetchBranches looking for main alone.
fetchBranchesThen_IgnoresMaster(state, resp) ==
    IF resp.ok /\ resp.branches # Null
    THEN LET list == resp.branches[1]
             s1   == [state EXCEPT !.branches = list]
         IN  IF Len(list) > 0 /\ "main" \notin Range(list)
             THEN [s1 EXCEPT !.selectedBranch = list[1]]
             ELSE s1
    ELSE [state EXCEPT !.branches = <<>>]

\* fetchBranches whose catch also gives up the loading flag.
fetchBranchesThen_ClearsLoading(state, resp) ==
    IF resp.ok /\ resp.branches # Null
    THEN LET list == resp.branches[1]
             s1   == [state EXCEPT !.branches = list]
         IN  IF Len(list) > 0 /\ ~HasMainOrMaster(list)
             THEN [s1 EXCEPT !.selectedBranch = list[1]]
             ELSE s1
    ELSE [state EXCEPT !.branches = <<>>, !.isLoading = FALSE]

\* fetchBranches once the response is in: the body of the try after the
\* awaits, and the catch.  A body without branches throws at
\* data.branches.length, after set({branches: undefined}), and lands in the
\* catch as well.
fetchBranchesThen(state, resp) ==
    IF resp.ok /\ resp.branches # Null
    THEN LET list == resp.branches[1]
             s1   == [state EXCEPT !.branches = list]
         IN  IF Len(list) > 0 /\ ~HasMainOrMaster(list)
             THEN [s1 EXCEPT !.selectedBranch = list[1]]
             ELSE s1
    ELSE [state EXCEPT !.branches = <<>>]

\* fetchBranches whose catch throws the failure on.
fetchBranchesSettles_Rethrows(resp) ==
    IF resp.ok /\ resp.branches # Null THEN "fulfilled" ELSE "rejected"

\* How fetchBranches' promise settles: the catch swallows every failure.
fetchBranchesSettles(resp) == "fulfilled"

\* fetchRepo entering loading without clearing the error.
fetchRepoStart_KeepsError(state) == [state EXCEPT !.isLoading = TRUE]

\* fetchRepo up to the request: set({isLoading: true, error: null}).
fetchRepoStart(state) == [state EXCEPT !.isLoading = TRUE, !.error = Null]

\* fetchRepo whose catch also drops the snapshot.
fetchRepoThen_DropsSnapshot(state, resp) ==
    IF resp.ok
    THEN [state EXCEPT !.repoData = Some(resp.data), !.isLoading = FALSE]
    ELSE [state EXCEPT
            !.error = Some(OrElse(resp.message, "Failed to fetch repository")),
            !.isLoading = FALSE, !.repoData = Null]

\* fetchRepo once the response is in.
fetchRepoThen(state, resp) ==
    IF resp.ok
    THEN [state EXCEPT !.repoData = Some(resp.data), !.isLoading = FALSE]
    ELSE [state EXCEPT
            !.error = Some(OrElse(resp.message, "Failed to fetch repository")),
            !.isLoading = FALSE]

\* reset going back to the whole initial state.
reset_ClearsBranches(state) ==
    [state EXCEPT !.isLoading = FALSE, !.isPulling = FALSE,
                  !.error = Null, !.repoData = Null,
                  !.branches = <<>>, !.selectedBranch = "main"]

reset(state) ==
    [state EXCEPT !.isLoading = FALSE, !.isPulling = FALSE,
                  !.error = Null, !.repoData = Null]

\* pullFiles' guard: if (!repoData) return.
pullFilesRejects(state) == state.repoData = Null

pullFilesStart(state) == [state EXCEPT !.isPulling = TRUE, !.error = Null]

\* The body pullFiles sends: {files: repoData.contents}.
pullFilesBody(state) == state.repoData[1].contents

\* data.created_files?.length || 0
CreatedCount(created_files) ==
    IF created_files = Null THEN 0 ELSE Len(created_files[1])

\* pullFiles whose catch forgets the flag.
pullFilesThen_KeepsFlag(state, resp) ==
    IF resp.ok
    THEN [state EXCEPT !.isPulling = FALSE]
    ELSE [state EXCEPT
            !.error = Some(OrElse(resp.message, "Failed to pull repository files"))]

\* pullFiles once the response is in.
pullFilesThen(state, resp) ==
    IF resp.ok
    THEN [state EXCEPT !.isPulling = FALSE]
    ELSE [state EXCEPT
            !.error = Some(OrElse(resp.message, "Failed to pull repository files")),
            !.isPulling = FALSE]

pullFilesToast(resp) ==
    IF resp.ok
    THEN CountToast("success", "Successfully pulled files",
                    CreatedCount(resp.created_files))
    ELSE Toast("error", "Failed to pull repository files")

----------------------------------------------------------------------------
\* Pull_page.

\* The url input's values: empty, blank, a URL.
Urls == { <<>>, <<" ">>, <<"h">> }

\* String.prototype.trim
RECURSIVE TrimStart(_)
TrimStart(s) ==
    IF s # <<>> /\ Head(s) = " " THEN TrimStart(Tail(s)) ELSE s

RECURSIVE TrimEnd(_)
TrimEnd(s) ==
    IF s # <<>> /\ s[Len(s)] = " " THEN TrimEnd(SubSeq(s, 1, Len(s) - 1)) ELSE s

Trim(s) == TrimEnd(TrimStart(s))

\* onChange={(e) => setUrl(e.target.value)}
SetUrl(u) ==
    /\ Idle
    /\ url' = u
    /\ event' = [op |-> "setUrl", toast |-> NoToast]
    /\ UNCHANGED <<store, selectedFiles, inflight, microtasks,
                   sortConfig, rows, input, output>>

\* The Select's items: the branches, or "main" when there are none.
BranchOptions(state) ==
    IF Len(state.branches) > 0 THEN Range(state.branches) ELSE {"main"}

setSelectedBranch(state, branch) == [state EXCEPT !.selectedBranch = branch]

SelectBranch(b) ==
    /\ Idle
    /\ b \in BranchOptions(store)
    /\ store' = setSelectedBranch(store, b)
    /\ event' = [op |-> "setSelectedBranch", toast |-> NoToast]
    /\ UNCHANGED <<url, selectedFiles, inflight, microtasks,
                   sortConfig, rows, input, output>>

\* handleSubmit with a blank url: a toast and nothing else.  The submit
\* button is disabled while isLoading.
SubmitBlank ==
    /\ Idle
    /\ ~store.isLoading
    /\ Trim(url) = <<>>
    /\ event' = [op |-> "handleSubmit",
                 toast |-> Toast("error", "Please enter a GitHub repository URL")]
    /\ UNCHANGED <<store, url, selectedFiles, inflight, microtasks,
                   sortConfig, rows, input, output>>

\* handleSubmit up to its first await: fetchBranches sends get-branches.
Submit ==
    /\ Idle
    /\ ~store.isLoading
    /\ Trim(url) # <<>>
    /\ Len(inflight) < MaxInFlight
    /\ inflight' = Append(inflight, Pending("get-branches", "handleSubmit"))
    /\ event' = [op |-> "handleSubmit", sent |-> FetchBranchesRequest,
                 toast |-> NoToast]
    /\ UNCHANGED <<store, url, selectedFiles, microtasks,
                   sortConfig, rows, input, output>>

\* get-branches answered: fetchBranches finishes and its promise settles;
\* handleSubmit resumes before any other event is handled.
BranchesResponse(i, resp) ==
    /\ Idle
    /\ inflight[i].op = "get-branches"
    /\ store' = fetchBranchesThen(store, resp)
    /\ inflight' = RemoveAt(inflight, i)
    /\ microtasks' = << [fn |-> "handleSubmit",
                         settled |-> fetchBranchesSettles(resp)] >>
    /\ event' = [op |-> "fetchBranches.then", resp |-> resp, pos |-> i,
                 toast |-> NoToast]
    /\ UNCHANGED <<url, selectedFiles,
                   sortConfig, rows, input, output>>

\* handleSubmit after await fetchBranches(url): it calls fetchRepo, which
\* reads selectedBranch, sets the flags and sends fetch-repo; had
\* fetchBranches rejected, the catch would toast instead.
HandleSubmitResume ==
    /\ ~Idle
    /\ microtasks' = Tail(microtasks)
    /\ IF Head(microtasks).settled = "fulfilled"
       THEN /\ store' = fetchRepoStart(store)
            /\ inflight' = Append(inflight, PendingFetchRepo(store))
            /\ event' = [op |-> "fetchRepo",
                         sent |-> FetchRepoRequest(store.selectedBranch),
                         toast |-> NoToast]
       ELSE /\ event' = [op |-> "handleSubmit.catch",
                         toast |-> Toast("error", "Failed to fetch repository")]
            /\ UNCHANGED <<store, inflight>>
    /\ UNCHANGED <<url, selectedFiles,
                   sortConfig, rows, input, output>>

\* fetch-repo answered, with a fence: the answer is applied only to the
\* request issued last.
RepoResponse_Fenced(i, resp) ==
    /\ Idle
    /\ inflight[i].op = "fetch-repo"
    /\ store' = IF \E j \in DOMAIN inflight : j > i /\ inflight[j].op = "fetch-repo"
                THEN store
                ELSE fetchRepoThen(store, resp)
    /\ inflight' = RemoveAt(inflight, i)
    /\ event' = [op |-> "fetchRepo.then", resp |-> resp, pos |-> i,
                 issuedWith |-> inflight[i].issuedWith, toast |-> NoToast]
    /\ rows' \in Renders(store', sortConfig)
    /\ UNCHANGED <<url, selectedFiles, sortConfig, microtasks, input, output>>

\* fetch-repo answered.  RepoCard keeps its state while it stays mounted and
\* lists the files of the snapshot the store holds now.
RepoResponse(i, resp) ==
    /\ Idle
    /\ inflight[i].op = "fetch-repo"
    /\ store' = fetchRepoThen(store, resp)
    /\ inflight' = RemoveAt(inflight, i)
    /\ event' = [op |-> "fetchRepo.then", resp |-> resp, pos |-> i,
                 issuedWith |-> inflight[i].issuedWith, toast |-> NoToast]
    /\ rows' \in Renders(fetchRepoThen(store, resp), sortConfig)
    /\ UNCHANGED <<url, selectedFiles, sortConfig, microtasks, input, output>>

\* The Clear button, shown with a snapshot: setUrl("") and reset().  RepoCard
\* unmounts; its next mount starts from an empty selection and the initial
\* sortConfig.
Clear ==
    /\ Idle
    /\ store.repoData # Null
    /\ url' = <<>>
    /\ store' = reset(store)
    /\ selectedFiles' = {}
    /\ event' = [op |-> "reset", toast |-> NoToast]
    /\ sortConfig' = InitialSortConfig
    /\ rows' = <<>>
    /\ UNCHANGED <<inflight, microtasks, input, output>>

----------------------------------------------------------------------------
\* RepoCard, mounted while the store holds a snapshot.

contents == store.repoData[1].contents

handleToggleFile(selected, path, checked) ==
    IF checked THEN selected \cup {path} ELSE selected \ {path}

\* A row's checkbox: onCheckedChange carries the opposite of what it shows.
ToggleFile(path) ==
    /\ Idle
    /\ store.repoData # Null
    /\ path \in Paths(DisplayedFiles(contents))
    /\ selectedFiles' = handleToggleFile(selectedFiles, path, path \notin selectedFiles)
    /\ event' = [op |-> "handleToggleFile", toast |-> NoToast]
    /\ UNCHANGED <<store, url, inflight, microtasks,
                   sortConfig, rows, input, output>>

handleSelectAll(entries) == Paths(RootFiles(entries))

SelectAll ==
    /\ Idle
    /\ store.repoData # Null
    /\ selectedFiles' = handleSelectAll(contents)
    /\ event' = [op |-> "handleSelectAll", toast |-> NoToast]
    /\ UNCHANGED <<store, url, inflight, microtasks,
                   sortConfig, rows, input, output>>

DeselectAll ==
    /\ Idle
    /\ store.repoData # Null
    /\ selectedFiles' = {}
    /\ event' = [op |-> "handleDeselectAll", toast |-> NoToast]
    /\ UNCHANGED <<store, url, inflight, microtasks,
                   sortConfig, rows, input, output>>

\* The pull button's allFiles.
IsSelected(file) == file.path \in selectedFiles

CardPullFiles(entries) == SelectSeq(RootFiles(entries), IsSelected)

\* The pull button (also clicked by the page's Pull Files button) with
\* nothing to send: a warning and nothing else.
CardPullRejected ==
    /\ Idle
    /\ store.repoData # Null
    /\ Len(CardPullFiles(contents)) = 0
    /\ event' = [op |-> "card.pull",
                 toast |-> Toast("warning", "Please select files to pull")]
    /\ UNCHANGED <<store, url, selectedFiles, inflight, microtasks,
                   sortConfig, rows, input, output>>

\* The pull button: onPullFiles(allFiles) sends pull-files.
CardPull ==
    /\ Idle
    /\ store.repoData # Null
    /\ Len(CardPullFiles(contents)) # 0
    /\ Len(inflight) < MaxInFlight
    /\ inflight' = Append(inflight, Pending("pull-files", "onPullFiles"))
    /\ event' = [op |-> "card.pull",
                 sent |-> PullFilesRequest(CardPullFiles(contents)),
                 toast |-> NoToast]
    /\ UNCHANGED <<store, url, selectedFiles, microtasks,
                   sortConfig, rows, input, output>>

\* pull-files answered to the page's onPullFiles: a failure (no answer, a
\* status that is not ok, a body that is not JSON), or a body with success,
\* created_files and error.
CardPullResponses ==
    { [ok |-> TRUE, success |-> TRUE, created_files |-> c, error |-> Null] :
        c \in {Null, Some(<<>>), Some(<<"f">>)} }
      \cup { [ok |-> TRUE, success |-> FALSE, created_files |-> Null, error |-> e] :
               e \in {Null, Some("quota")} }
      \cup Failures

onPullFilesToast(resp) ==
    IF ~resp.ok THEN Toast("error", "Failed to pull files")
    ELSE IF resp.success
         THEN IF CreatedCount(resp.created_files) > 0
              THEN CountToast("success", "Successfully created files",
                              CreatedCount(resp.created_files))
              ELSE Toast("warning", "No files were pulled")
         ELSE Toast("error", OrElse(resp.error, "Failed to pull files"))

CardPullResponse(i, resp) ==
    /\ Idle
    /\ inflight[i].op = "pull-files"
    /\ inflight[i].from = "onPullFiles"
    /\ inflight' = RemoveAt(inflight, i)
    /\ event' = [op |-> "onPullFiles.then", resp |-> resp, pos |-> i,
                 toast |-> onPullFilesToast(resp)]
    /\ UNCHANGED <<store, url, selectedFiles, microtasks,
                   sortConfig, rows, input, output>>

----------------------------------------------------------------------------
\* The store's pullFiles action.

\* pullFiles raising its flag before it looks for the snapshot.
PullFilesRejected_RaisesFlag ==
    /\ Idle
    /\ pullFilesRejects(store)
    /\ store' = pullFilesStart(store)
    /\ event' = [op |-> "pullFiles",
                 toast |-> Toast("error", "Please fetch repository info first")]
    /\ UNCHANGED <<url, selectedFiles, inflight, microtasks,
                   sortConfig, rows, input, output>>

\* pullFiles without a snapshot: a toast and nothing else.
PullFilesRejected ==
    /\ Idle
    /\ pullFilesRejects(store)
    /\ event' = [op |-> "pullFiles",
                 toast |-> Toast("error", "Please fetch repository info first")]
    /\ UNCHANGED <<store, url, selectedFiles, inflight, microtasks,
                   sortConfig, rows, input, output>>

PullFiles ==
    /\ Idle
    /\ ~pullFilesRejects(store)
    /\ Len(inflight) < MaxInFlight
    /\ store' = pullFilesStart(store)
    /\ inflight' = Append(inflight, Pending("pull-files", "pullFiles"))
    /\ event' = [op |-> "pullFiles",
                 sent |-> PullFilesRequest(pullFilesBody(store)),
                 toast |-> NoToast]
    /\ UNCHANGED <<url, selectedFiles, microtasks,
                   sortConfig, rows, input, output>>

PullFilesResponse(i, resp) ==
    /\ Idle
    /\ inflight[i].op = "pull-files"
    /\ inflight[i].from = "pullFiles"
    /\ store' = pullFilesThen(store, resp)
    /\ inflight' = RemoveAt(inflight, i)
    /\ event' = [op |-> "pullFiles.then", resp |-> resp, pos |-> i,
                 toast |-> pullFilesToast(resp)]
    /\ UNCHANGED <<url, selectedFiles, microtasks,
                   sortConfig, rows, input, output>>

----------------------------------------------------------------------------
\* The page and the store.  RepoCard's handlers read and write neither the
\* store nor the store's requests, and stay out of this specification.
Next ==
    \/ \E u \in Urls : SetUrl(u)
    \/ \E b \in BranchNames : SelectBranch(b)
    \/ SubmitBlank
    \/ Submit
    \/ HandleSubmitResume
    \/ \E i \in DOMAIN inflight : \E resp \in BranchResponses : BranchesResponse(i, resp)
    \/ \E i \in DOMAIN inflight : \E resp \in RepoResponses : RepoResponse(i, resp)
    \/ Clear
    \/ PullFilesRejected
    \/ PullFiles
    \/ \E i \in DOMAIN inflight : \E resp \in PullResponses : PullFilesResponse(i, resp)

Spec == Init /\ [][Next]_vars

\* The page and the store with every request answered in the end.  fetch has
\* no timeout: that a request is answered at all is an assumption on the
\* transport, stated here as fairness of the three answers.  handleSubmit
\* resuming after its await is the microtask queue's doing.
BranchesAnswered ==
    \E i \in DOMAIN inflight : \E resp \in BranchResponses : BranchesResponse(i, resp)

RepoAnswered ==
    \E i \in DOMAIN inflight : \E resp \in RepoResponses : RepoResponse(i, resp)

PullFilesAnswered ==
    \E i \in DOMAIN inflight : \E resp \in PullResponses : PullFilesResponse(i, resp)

SpecAnswered ==
    /\ Init /\ [][Next]_vars
    /\ WF_vars(HandleSubmitResume)
    /\ WF_vars(BranchesAnswered)
    /\ WF_vars(RepoAnswered)
    /\ WF_vars(PullFilesAnswered)

\* The user asks for something that sends a request: a submit, a pull.
UserRequest == Submit \/ PullFiles

\* The whole program: the page, the store and RepoCard with its selection.
\* The card's column headers are followed in SpecCard.
NextAll ==
    \/ Next
    \/ \E path \in AllPaths : ToggleFile(path)
    \/ SelectAll
    \/ DeselectAll
    \/ CardPullRejected
    \/ CardPull
    \/ \E i \in DOMAIN inflight : \E resp \in CardPullResponses : CardPullResponse(i, resp)

SpecAll == Init /\ [][NextAll]_vars

----------------------------------------------------------------------------
\* RepoCard on its own, mounted with a snapshot: its column headers and its
\* selection.

\* A column header's onClick: handleSort(column), and the list sorted anew.
HandleSort(column) ==
    /\ Idle
    /\ store.repoData # Null
    /\ sortConfig' = handleSort(sortConfig, column)
    /\ rows' \in Renders(store, sortConfig')
    /\ event' = [op |-> "handleSort", column |-> column, prev |-> sortConfig,
                 toast |-> NoToast]
    /\ UNCHANGED <<store, url, selectedFiles, inflight, microtasks,
                   input, output>>

InitCard ==
    /\ \E s \in CardSnapshots :
         /\ store = [InitialStore EXCEPT !.repoData = Some(s)]
         /\ rows \in Renders(store, InitialSortConfig)
    /\ url = <<"h">>
    /\ selectedFiles = {}
    /\ sortConfig = InitialSortConfig
    /\ inflight = <<>>
    /\ microtasks = <<>>
    /\ event = [op |-> "init", toast |-> NoToast]
    /\ input = <<>>
    /\ output = <<>>

NextCard ==
    \/ \E column \in Columns : HandleSort(column)
    \/ \E path \in CardPaths : ToggleFile(path)
    \/ SelectAll
    \/ DeselectAll

SpecCard == InitCard /\ [][NextCard]_vars

----------------------------------------------------------------------------
\* The functions of Pull_comp on their own: an argument, and the function
\* applied to it.

program ==
    <<store, url, selectedFiles, sortConfig, rows, inflight, microtasks, event>>

\* Trees have at most this many entries.
MaxNodes == 4

Kinds == {"file", "dir"}

\* The sequences of trees of n entries in all, each entry a kind and its
\* children.
RECURSIVE ShapesOf(_)
ShapesOf(n) ==
    IF n = 0 THEN { <<>> }
    ELSE UNION { { << [type |-> t, children |-> c] >> \o r :
                     t \in Kinds, c \in ShapesOf(k - 1), r \in ShapesOf(n - k) } :
                 k \in 1..n }

\* The entries of a shape under a parent: an entry is named by its place
\* among its siblings, and its path is its parent's path and its name.
RECURSIVE Placed(_, _)
Placed(shape, parent) ==
    IF shape = <<>> THEN <<>>
    ELSE Placed(SubSeq(shape, 1, Len(shape) - 1), parent)
           \o << [name |-> Len(shape), path |-> Append(parent, Len(shape)),
                  type |-> shape[Len(shape)].type, parent_path |-> parent,
                  children |-> Placed(shape[Len(shape)].children,
                                      Append(parent, Len(shape)))] >>

Trees == UNION { { Placed(shape, <<>>) : shape \in ShapesOf(n) } : n \in 0..MaxNodes }

InitFlatten ==
    /\ FirstRender
    /\ input \in Trees
    /\ output = <<>>

\* contents.flatMap(getAllFiles)
Flatten ==
    /\ output = <<>>
    /\ output' = << FlatMapAllFiles(input) >>
    /\ UNCHANGED <<program, input>>

SpecFlatten == InitFlatten /\ [][Flatten]_vars

\* Paths have at most this many segments.
MaxSegments == 3

Segments == {"apis", "components", "utils", "pages", "b.ts"}

SegmentPaths == UNION { [1..n -> Segments] : n \in 1..MaxSegments }

InitCategory ==
    /\ FirstRender
    /\ input \in SegmentPaths
    /\ output = <<>>

Categorize ==
    /\ output = <<>>
    /\ output' = << getFileCategory(input) >>
    /\ UNCHANGED <<program, input>>

SpecCategory == InitCategory /\ [][Categorize]_vars

\* Lists to sort have at most this many files.
MaxFiles == 3

FilePool ==
    { File("a.ts", <<"src", "utils", "a.ts">>, <<"src", "utils">>),
      File("a.ts", <<"src", "pages", "a.ts">>, <<"src", "pages">>),
      File("b.ts", <<"src", "apis", "b.ts">>, <<"src", "apis">>),
      File("c.ts", <<"src", "utils", "c.ts">>, <<"src", "utils">>) }

\* The lists of distinct files out of the pool.
FileLists ==
    { l \in UNION { [1..n -> FilePool] : n \in 0..MaxFiles } :
        \A i, j \in DOMAIN l : i # j => l[i] # l[j] }

InitSort ==
    /\ FirstRender
    /\ input \in { [files |-> l, sortConfig |-> [column |-> c, direction |-> d]] :
                     l \in FileLists, c \in Columns, d \in Directions }
    /\ output = <<>>

\* sortFiles applied to the list, then to what it returned.
SortFiles ==
    /\ Len(output) < 2
    /\ output' = Append(output,
                        sortFiles(IF output = <<>> THEN input.files ELSE output[1],
                                  input.sortConfig))
    /\ UNCHANGED <<program, input>>

SpecSort == InitSort /\ [][SortFiles]_vars

----------------------------------------------------------------------------
\* The message a failure leaves in error: its own, or the fallback when it
\* has none or an empty one.
FailureMessage(resp, fallback) ==
    IF resp.message = Null \/ resp.message = Some("") THEN fallback
    ELSE resp.message[1]

FetchRepoFailed(e) == e.op = "fetchRepo.then" /\ ~e.resp.ok

\* C1 (as amended): when a snapshot fetch fails, error is the failure's
\* message, or "Failed to fetch repository" when it has none, isLoading is
\* false, and repoData is what it was when the failure arrived: the failure
\* does not write it.
C1_FetchFailureLeavesSnapshot ==
    [][ FetchRepoFailed(event') =>
          /\ store'.error =
               Some(FailureMessage(event'.resp, "Failed to fetch repository"))
          /\ store'.isLoading = FALSE
          /\ store'.repoData = store.repoData ]_vars

\* C1 as stated: after a failed snapshot fetch repoData is what it was
\* before the fetch was issued.
C1_SnapshotAsBeforeIssue ==
    [][ FetchRepoFailed(event') =>
          /\ store'.error =
               Some(FailureMessage(event'.resp, "Failed to fetch repository"))
          /\ store'.isLoading = FALSE
          /\ store'.repoData = event'.issuedWith ]_vars

\* A fetch failed, without a message, while a snapshot was loaded.
C1_Witness ==
    /\ FetchRepoFailed(event)
    /\ event.resp.message = Null
    /\ store.repoData # Null
    /\ store.error = Some("Failed to fetch repository")

\* C2: once fetchRepo has sent its request isLoading is true and error is
\* null; once the request has succeeded repoData is the returned snapshot
\* and isLoading is false.
C2_FetchLifecycle ==
    /\ event.op = "fetchRepo" =>
         /\ store.isLoading = TRUE
         /\ store.error = Null
         /\ inflight # <<>>
         /\ inflight[Len(inflight)].op = "fetch-repo"
         /\ event.sent.op = "fetch-repo"
    /\ (event.op = "fetchRepo.then" /\ event.resp.ok) =>
         /\ store.repoData = Some(event.resp.data)
         /\ store.isLoading = FALSE

\* A successful fetch replaced a snapshot loaded before it by another.
C2_Witness ==
    /\ event.op = "fetchRepo.then"
    /\ event.resp.ok
    /\ event.issuedWith # Null
    /\ event.issuedWith # Some(event.resp.data)
    /\ store.repoData = Some(event.resp.data)

\* C3: pullFiles called while repoData is null sends no request and changes
\* no field of the store.
C3_PullWithoutSnapshotRejected ==
    [][ (event'.op = "pullFiles" /\ store.repoData = Null) =>
          /\ store' = store
          /\ inflight' = inflight
          /\ "sent" \notin DOMAIN event' ]_vars

\* pullFiles was called without a snapshot and said so.
C3_Witness ==
    /\ event.op = "pullFiles"
    /\ store.repoData = Null
    /\ event.toast = Toast("error", "Please fetch repository info first")

IsPull(e) == e.op = "card.pull" \/ e.op = "pullFiles"

\* C4: a pull attempted while the selection is empty, from the card's
\* button or the store's pullFiles, sends no request and changes no state.
C4_EmptySelectionNeverPulls ==
    [][ (IsPull(event') /\ selectedFiles = {}) =>
          /\ "sent" \notin DOMAIN event'
          /\ inflight' = inflight
          /\ store' = store ]_vars

\* C5: the files of every pull request are the file entries of the
\* snapshot whose path is selected when the pull is issued, and no other
\* entry.
C5_PullCarriesSelection ==
    [][ (IsPull(event') /\ "sent" \in DOMAIN event') =>
          event'.sent.files = SelectSeq(DisplayedFiles(contents), IsSelected) ]_vars

\* C6: every selected path is the path of a file of the current snapshot;
\* without a snapshot nothing is selected.
C6_SelectionWithinSnapshot ==
    IF store.repoData = Null
    THEN selectedFiles = {}
    ELSE selectedFiles \subseteq Paths(DisplayedFiles(contents))

BranchesSucceeded(e) ==
    e.op = "fetchBranches.then" /\ e.resp.ok /\ e.resp.branches # Null

BranchesFailed(e) ==
    e.op = "fetchBranches.then" /\ ~(e.resp.ok /\ e.resp.branches # Null)

\* C7 (as amended): when branch discovery succeeds, branches is the
\* returned list; selectedBranch becomes the first returned branch if the
\* list is not empty and holds neither main nor master, and is left as it
\* is otherwise.
C7_BranchDefault ==
    [][ BranchesSucceeded(event') =>
          LET list == event'.resp.branches[1]
          IN  /\ store'.branches = list
              /\ store'.selectedBranch =
                   IF /\ list # <<>>
                      /\ "main" \notin Range(list)
                      /\ "master" \notin Range(list)
                   THEN list[1]
                   ELSE store.selectedBranch ]_vars

\* branches[0] in JavaScript.
First(list) == IF list = <<>> THEN "undefined" ELSE list[1]

\* C7 as stated: whenever neither main nor master is among the returned
\* branches, selectedBranch becomes the first returned branch.
C7_FirstBranchWheneverNoMain ==
    [][ BranchesSucceeded(event') =>
          LET list == event'.resp.branches[1]
          IN  /\ store'.branches = list
              /\ store'.selectedBranch =
                   IF "main" \notin Range(list) /\ "master" \notin Range(list)
                   THEN First(list)
                   ELSE store.selectedBranch ]_vars

\* Discovery returned dev and feature-x, and dev is selected.
C7_Witness ==
    /\ BranchesSucceeded(event)
    /\ event.resp.branches = Some(<<"dev", "feature-x">>)
    /\ store.branches = <<"dev", "feature-x">>
    /\ store.selectedBranch = "dev"

\* C8: when branch discovery fails, branches becomes empty, every other
\* field of the store is left alone, and fetchBranches returns normally:
\* handleSubmit resumes past its await.
C8_BranchFailureSwallowed ==
    [][ BranchesFailed(event') =>
          /\ store'.branches = <<>>
          /\ store'.selectedBranch = store.selectedBranch
          /\ store'.error = store.error
          /\ store'.isLoading = store.isLoading
          /\ store'.isPulling = store.isPulling
          /\ store'.repoData = store.repoData
          /\ microtasks' = << [fn |-> "handleSubmit", settled |-> "fulfilled"] >> ]_vars

\* Discovery failed while an error was shown, a snapshot was loaded and a
\* branch other than main was selected.
C8_Witness ==
    /\ BranchesFailed(event)
    /\ ~event.resp.ok
    /\ store.branches = <<>>
    /\ store.selectedBranch = "dev"
    /\ store.error # Null
    /\ store.repoData # Null

\* C9: reset leaves isLoading and isPulling false, error and repoData null,
\* and branches and selectedBranch as they were.
C9_Reset ==
    [][ event'.op = "reset" =>
          /\ store'.isLoading = FALSE
          /\ store'.isPulling = FALSE
          /\ store'.error = Null
          /\ store'.repoData = Null
          /\ store'.branches = store.branches
          /\ store'.selectedBranch = store.selectedBranch ]_vars

\* reset ran with requests in flight, branches known and a branch other
\* than main selected.
C9_Witness ==
    /\ event.op = "reset"
    /\ inflight # <<>>
    /\ store.branches # <<>>
    /\ store.selectedBranch # "main"

\* Another snapshot fetch is in flight beside the one at place pos.
OtherFetchInFlight(pos) ==
    \E j \in DOMAIN inflight : j # pos /\ inflight[j].op = "fetch-repo"

\* C10 (as amended): with several snapshot fetches in flight, an answer is
\* applied when it arrives, whatever the place of its request in issue
\* order, and writes the fields of its outcome alone: a success repoData and
\* isLoading, a failure error and isLoading.  Each field ends as the last
\* answer that writes it left it.
C10_AppliedInCompletionOrder ==
    [][ (event'.op = "fetchRepo.then" /\ OtherFetchInFlight(event'.pos)) =>
          store' =
            IF event'.resp.ok
            THEN [store EXCEPT !.repoData = Some(event'.resp.data),
                               !.isLoading = FALSE]
            ELSE [store EXCEPT
                    !.error = Some(FailureMessage(event'.resp,
                                                  "Failed to fetch repository")),
                    !.isLoading = FALSE] ]_vars

\* C10 as stated: when two snapshot fetches were in flight and are answered
\* one after the other, repoData, error and isLoading end as the fetch
\* answered last wrote them: after a success, its snapshot and the null
\* error of its start; after a failure, its message.
C10_LastAnswerWritesAll ==
    [][ (event.op = "fetchRepo.then" /\ event'.op = "fetchRepo.then") =>
          /\ store'.isLoading = FALSE
          /\ IF event'.resp.ok
             THEN /\ store'.repoData = Some(event'.resp.data)
                  /\ store'.error = Null
             ELSE store'.error =
                    Some(FailureMessage(event'.resp, "Failed to fetch repository")) ]_vars

\* The fetch issued second was answered, with a failure, while the fetch
\* issued first was still in flight; isLoading is false all the same.
C10_Witness ==
    /\ event.op = "fetchRepo.then"
    /\ event.pos > 1
    /\ ~event.resp.ok
    /\ inflight # <<>>
    /\ inflight[1].op = "fetch-repo"
    /\ store.isLoading = FALSE

\* A pull request was answered, to the store's pullFiles or to the page's
\* onPullFiles, and the answer says the pull succeeded.
PullAnswered(e) == e.op = "pullFiles.then" \/ e.op = "onPullFiles.then"

PullSucceeded(resp) ==
    resp.ok /\ ("success" \in DOMAIN resp => resp.success)

\* C11: every pull that sends its request, from the store's pullFiles or
\* from the card through the page's onPullFiles, sets isPulling and clears
\* error; when it is answered with success isPulling is false and a success
\* toast reports the number of created files; when it is answered with a
\* failure error is the failure's message, isPulling is false and an error
\* toast is emitted.
C11_PullLifecycle ==
    [][ /\ (IsPull(event') /\ "sent" \in DOMAIN event') =>
              /\ store'.isPulling = TRUE
              /\ store'.error = Null
        /\ (PullAnswered(event') /\ PullSucceeded(event'.resp)) =>
              /\ store'.isPulling = FALSE
              /\ event'.toast # NoToast
              /\ event'.toast[1].level = "success"
              /\ "count" \in DOMAIN event'.toast[1]
              /\ event'.toast[1].count = CreatedCount(event'.resp.created_files)
        /\ (PullAnswered(event') /\ ~event'.resp.ok) =>
              /\ store'.error =
                   Some(FailureMessage(event'.resp, "Failed to pull repository files"))
              /\ store'.isPulling = FALSE
              /\ event'.toast # NoToast
              /\ event'.toast[1].level = "error" ]_vars

\* C12: selectAll leaves selected exactly the paths of the files the list
\* displays, contents flattened with getAllFiles, whatever the contents.
C12_SelectAllIsDisplayed ==
    [][ event'.op = "handleSelectAll" =>
          selectedFiles' = Paths(DisplayedFiles(contents)) ]_vars

\* Every entry of a sequence of trees, at any depth.
RECURSIVE NodesOf(_)
NodesOf(entries) ==
    UNION { {entries[i]} \cup NodesOf(entries[i].children) : i \in DOMAIN entries }

\* Pre-order on the places of two entries: an entry comes before the
\* entries below it and before those below or at a later sibling of it or of
\* an entry above it.
PreOrderBefore(p, q) ==
    \/ Len(p) < Len(q) /\ SubSeq(q, 1, Len(p)) = p
    \/ \E k \in DOMAIN p \cap DOMAIN q :
         /\ p[k] < q[k]
         /\ \A j \in 1..(k - 1) : p[j] = q[j]

\* C13: flattening a sequence of trees yields the entries of kind file, each
\* once, in pre-order, and no entry of kind dir.
C13_FlattenIsPreOrderFiles ==
    output # <<>> =>
      LET flat  == output[1]
          files == { n \in NodesOf(input) : n.type = "file" }
      IN  /\ Range(flat) = files
          /\ Len(flat) = Cardinality(files)
          /\ \A i, j \in DOMAIN flat :
               i < j => PreOrderBefore(flat[i].path, flat[j].path)

\* A tree with a file two directories down, and a file at the top level
\* after it, was flattened to the two of them in that order.
C13_Witness ==
    /\ output # <<>>
    /\ Len(output[1]) = 2
    /\ Len(output[1][1].path) = 3
    /\ Len(output[1][2].path) = 1
    /\ Cardinality(NodesOf(input)) = 4

IndexOf(seq, x) == CHOOSE i \in DOMAIN seq : seq[i] = x

\* C14: the rows are the flattened files sorted by sortConfig, and two files
\* with equal keys are in the order the flattened input has them in.
C14_DisplayStable ==
    store.repoData # Null =>
      LET flat == DisplayedFiles(contents)
      IN  /\ Range(rows) = Range(flat)
          /\ Len(rows) = Len(flat)
          /\ \A i, j \in DOMAIN rows :
               i < j =>
                 LET c == compareFiles(rows[i], rows[j], sortConfig)
                 IN  /\ c <= 0
                     /\ c = 0 => IndexOf(flat, rows[i]) < IndexOf(flat, rows[j])

HasSegment(path, segment) == \E i \in DOMAIN path : path[i] = segment

\* C15: the category of a path is that of the first of apis, components,
\* utils and pages that is one of its segments, the first segment included,
\* and other when none is.
C15_CategoryBySegment ==
    output # <<>> =>
      output[1] = IF HasSegment(input, "apis") THEN "backend"
                  ELSE IF HasSegment(input, "components") THEN "component"
                  ELSE IF HasSegment(input, "utils") THEN "util"
                  ELSE IF HasSegment(input, "pages") THEN "page"
                  ELSE "other"

\* C16: a click on the header of the sort column flips the direction, and a
\* click on the header of another column makes it the sort column, ascending.
C16_HandleSortToggles ==
    [][ event'.op = "handleSort" =>
          /\ sortConfig'.column = event'.column
          /\ sortConfig'.direction =
               IF sortConfig.column # event'.column THEN "asc"
               ELSE IF sortConfig.direction = "asc" THEN "desc"
               ELSE "asc" ]_vars

\* After some clicks the sort column was descending, and a click on its
\* header made it ascending again.
C16_Witness ==
    /\ event.op = "handleSort"
    /\ event.prev = [column |-> "category", direction |-> "desc"]
    /\ event.column = "category"
    /\ sortConfig = [column |-> "category", direction |-> "asc"]

\* C17: sorting ascending by a column what was sorted ascending by that
\* column leaves the sequence as it is.
C17_SortIdempotent ==
    (Len(output) = 2 /\ input.sortConfig.direction = "asc") =>
      output[2] = output[1]

\* Three files, two of one name, were sorted by name into another order and
\* sorted again.
C17_Witness ==
    /\ Len(output) = 2
    /\ input.sortConfig = [column |-> "name", direction |-> "asc"]
    /\ Len(input.files) = 3
    /\ output[1] # input.files
    /\ \E i \in 1..2 : output[1][i].name = output[1][i + 1].name

FetchInFlight == \E i \in DOMAIN inflight : inflight[i].op = "fetch-repo"

\* C18 (as amended): isLoading is true once a snapshot fetch has been
\* issued, and only the answer to a snapshot fetch (that one or another in
\* flight) or reset makes it false again.
C18_LoadingClearedByAnswerOrReset ==
    [][ /\ event'.op = "fetchRepo" =>
              /\ store'.isLoading = TRUE
              /\ inflight'[Len(inflight')].op = "fetch-repo"
        /\ (store.isLoading /\ ~store'.isLoading) =>
              event'.op \in {"fetchRepo.then", "reset"} ]_vars

\* C18 as stated: isLoading is true whenever a snapshot fetch is in flight.
C18_LoadingWhileInFlight == FetchInFlight => store.isLoading

\* reset ran during a fetch: the fetch is still in flight and isLoading is
\* false.
C18_Witness ==
    /\ event.op = "reset"
    /\ FetchInFlight
    /\ store.isLoading = FALSE

IsBlank(s) == \A i \in DOMAIN s : s[i] = " "

\* C20: handleSubmit with a url that is not blank sends get-branches, and
\* fetch-repo is sent only in the step after get-branches is answered, by
\* success or by failure, with the selectedBranch the store holds then: the
\* first returned branch when the answer reassigned it.  handleSubmit with a
\* blank url sends nothing and leaves the store as it is.
C20_FetchAfterDiscovery ==
    [][ /\ (event'.op = "handleSubmit" /\ ~IsBlank(url)) =>
              /\ event'.sent = [op |-> "get-branches"]
              /\ store' = store
              /\ ~(\E i \in DOMAIN inflight' : /\ i \notin DOMAIN inflight
                                               /\ inflight'[i].op = "fetch-repo")
        /\ event'.op = "fetchRepo" =>
              /\ event.op = "fetchBranches.then"
              /\ event'.sent = [op |-> "fetch-repo", branch |-> store.selectedBranch]
              /\ (/\ BranchesSucceeded(event)
                  /\ event.resp.branches[1] # <<>>
                  /\ "main" \notin Range(event.resp.branches[1])
                  /\ "master" \notin Range(event.resp.branches[1])) =>
                    event'.sent.branch = event.resp.branches[1][1]
        /\ (Len(inflight') > Len(inflight)
              /\ inflight'[Len(inflight')].op = "fetch-repo") =>
              event'.op = "fetchRepo"
        /\ (event'.op = "handleSubmit" /\ IsBlank(url)) =>
              /\ "sent" \notin DOMAIN event'
              /\ inflight' = inflight
              /\ store' = store ]_vars

\* fetch-repo was sent for dev, the first of the branches a discovery
\* without main and master returned.
C20_Witness ==
    /\ event.op = "fetchRepo"
    /\ event.sent.branch = "dev"
    /\ store.branches = <<"dev", "feature-x">>
    /\ store.selectedBranch = "dev"
    /\ store.isLoading = TRUE

\* C21: if from some point on the user sends no new request, and every
\* request sent is answered, then from some point on isLoading and
\* isPulling are false; and every answer to fetchRepo leaves isLoading
\* false, every answer to pullFiles leaves isPulling false.
C21_EventuallyIdle ==
    /\ <>[][~UserRequest]_vars =>
         <>[](store.isLoading = FALSE /\ store.isPulling = FALSE)
    /\ [][ /\ event'.op = "fetchRepo.then" => store'.isLoading = FALSE
           /\ event'.op = "pullFiles.then" => store'.isPulling = FALSE ]_vars

\* A fetch and a pull were in flight together, both flags up; the pull was
\* answered last, with a failure, and both flags are down with nothing left
\* in flight.
C21_Witness ==
    /\ event.op = "pullFiles.then"
    /\ ~event.resp.ok
    /\ inflight = <<>>
    /\ microtasks = <<>>
    /\ store.repoData # Null
    /\ store.error # Null
    /\ store.isLoading = FALSE
    /\ store.isPulling = FALSE

============================================================================
